---------------------------- MODULE Spec2Model ----------------------------
(***************************************************************************)
(* wrangler `pipelines` command module (packages/wrangler/src/pipelines).  *)
(*                                                                         *)
(* One CLI invocation is modelled: the create, update and delete handlers  *)
(* of index.ts and the API client of client.ts.  Every `await` on a        *)
(* network call is two steps: the request is issued, and later its answer  *)
(* is consumed by the continuation of the handler.  The server's answers   *)
(* and the outcome of requireAuth are chosen nondeterministically.         *)
(*                                                                         *)
(* JavaScript values:                                                      *)
(*   - a value of type `T | undefined` is None (undefined) or Some(v);     *)
(*   - an object is a function from the keys it has to their values;       *)
(*   - a string the code parses (the transform, the pipeline name, the     *)
(*     file name) is a sequence of characters or tokens; other strings     *)
(*     are opaque; a template literal is the tuple of its parts.           *)
(***************************************************************************)
EXTENDS Naturals, Sequences, FiniteSets, TLC

VARIABLES
    pc,              \* position of the running handler
    cmd,             \* "none", "create", "update" or "delete"
    args,            \* the parsed command line (yargs argv)
    accountId,       \* const accountId = await requireAuth(config)
    pipelineConfig,  \* the handler's local pipelineConfig
    credentials,     \* None, or Some of endpoint, secret_access_key, access_key_id
    trace,           \* everything the invocation did, in order: requests,
                     \* responses, log lines, sleeps, metrics events
    error            \* None, or Some(the error the handler threw)

vars == <<pc, cmd, args, accountId, pipelineConfig, credentials, trace, error>>

---------------------------------------------------------------------------
(* Bounds of the model *)

\* longest --transform value, in characters
MaxTransformLen == 3

\* most optional flags given on one command line
MaxFlags == 3

---------------------------------------------------------------------------
(* JavaScript values *)

None == <<>>
Some(v) == <<v>>
IsSome(o) == Len(o) = 1
Opt(S) == {None} \cup {Some(v) : v \in S}

EmptyObject == <<>>

\* obj[k] = v, adding the key when the object lacks it
SetField(obj, k, v) ==
    [x \in (DOMAIN obj) \cup {k} |-> IF x = k THEN v ELSE obj[x]]

HasField(obj, k) == k \in DOMAIN obj

\* truthiness of an optional opaque string: undefined and "" are falsy
Truthy(o) == IsSome(o) /\ o[1] # ""

\* truthiness of an optional parsed string
TruthySeq(o) == IsSome(o) /\ Len(o[1]) > 0

RECURSIVE SplitFrom(_, _, _)
SplitFrom(s, i, cur) ==
    IF i > Len(s) THEN <<cur>>
    ELSE IF s[i] = "." THEN <<cur>> \o SplitFrom(s, i + 1, <<>>)
    ELSE SplitFrom(s, i + 1, Append(cur, s[i]))

\* String.prototype.split('.')
Split(s) == SplitFrom(s, 1, <<>>)

---------------------------------------------------------------------------
(* The command line *)

TransformChars == {"a", "."}

RECURSIVE StringsUpTo(_, _)
StringsUpTo(chars, n) ==
    IF n = 0 THEN {<<>>}
    ELSE LET shorter == StringsUpTo(chars, n - 1)
         IN  shorter \cup {Append(s, c) : s \in shorter, c \in chars}

TransformValues == StringsUpTo(TransformChars, MaxTransformLen)

PipelineNames == {<<"p", "-", "7">>, <<"p", "_">>, <<>>}

BucketNames == {"", "test-bucket"}

\* choices: ['none', 'gzip', 'deflate']
CompressionChoices == {"none", "gzip", "deflate"}

FileNames == {<<"${slug}", ".json">>, <<"out.json">>}

FlagNames ==
    {"r2", "compression", "batchMaxMb", "batchMaxRows", "batchMaxSeconds",
     "transform", "filepath", "filename", "authentication"}

NumFlags(a) == Cardinality({f \in FlagNames : IsSome(a[f])})

\* what yargs hands to a handler of addCreateAndUpdateOptions
Argv ==
    {a \in [pipeline : PipelineNames,
            r2 : Opt(BucketNames),
            compression : Opt(CompressionChoices),
            batchMaxMb : Opt({10}),
            batchMaxRows : Opt({10000}),
            batchMaxSeconds : Opt({15}),
            transform : Opt(TransformValues),
            filepath : Opt({"dir"}),
            filename : Opt(FileNames),
            authentication : Opt(BOOLEAN)] : NumFlags(a) <= MaxFlags}

NoArgs ==
    [pipeline |-> <<>>, r2 |-> None, compression |-> None, batchMaxMb |-> None,
     batchMaxRows |-> None, batchMaxSeconds |-> None, transform |-> None,
     filepath |-> None, filename |-> None, authentication |-> None]

\* create declares --r2 with demandOption: true
CreateArgv == {a \in Argv : IsSome(a.r2)}

\* update declares --r2 with demandOption: false
UpdateArgv == Argv

\* delete declares only the pipeline name
DeleteArgv == {[NoArgs EXCEPT !.pipeline = n] : n \in PipelineNames}

---------------------------------------------------------------------------
(* The trace *)

RequestEv(method, route, params) ==
    [ev |-> "request", method |-> method, route |-> route, params |-> params]

RequestBodyEv(method, route, params, body) ==
    [ev |-> "request", method |-> method, route |-> route, params |-> params,
     body |-> body]

\* the answer fetchResult got for the request in flight
ResponseEv(resp) == [ev |-> "response", ok |-> resp.ok, answer |-> resp]

LogEv(level, text, arg) == [ev |-> "log", level |-> level, text |-> text, arg |-> arg]

SleepEv(ms) == [ev |-> "sleep", ms |-> ms]

MetricsEv(name) == [ev |-> "metrics", name |-> name]

IsRequest(e) == e.ev = "request"
IsResponse(e) == e.ev = "response"

Requests(t) == SelectSeq(t, IsRequest)
Responses(t) == SelectSeq(t, IsResponse)

\* requests issued and not yet answered
InFlight(t) == Len(Requests(t)) - Len(Responses(t))

---------------------------------------------------------------------------
(* The Cloudflare API, as fetchResult shows it to the client *)

\* a 2xx answer: fetchResult returns its result
OkResponse(result) == [ok |-> TRUE, result |-> result]

\* a non-2xx answer: fetchResult throws, carrying the server's code and message
ErrorResponse(code, message) == [ok |-> FALSE, code |-> code, message |-> message]

ApiError(resp) == [kind |-> "APIError", code |-> resp.code, message |-> resp.message]

\* GET /accounts/:accountId/r2/buckets/:bucket
BucketResponses(bucket) ==
    {OkResponse(Some([name |-> bucket])),
     OkResponse(None),
     ErrorResponse(10006, "The specified bucket does not exist.")}

R2WritePermission == "Workers R2 Storage Bucket Item Write"

WriteGroup == [id |-> "2efd5506f9c8494dacb1fa10a3e7d5b6", name |-> R2WritePermission]

ReadGroup == [id |-> "b4992e1108244f5d8bfbd5744320c2e1", name |-> "Workers R2 Storage Read"]

\* GET /user/tokens/permission_groups
PermissionGroupsResponses ==
    {OkResponse(<<ReadGroup, WriteGroup>>),
     OkResponse(<<ReadGroup>>),
     OkResponse(<<>>),
     ErrorResponse(9109, "Unauthorized to access requested resource")}

\* POST /user/tokens
TokenResponses(label) ==
    {OkResponse([id |-> "service-token-id", name |-> label, value |-> "my-secret-value"]),
     OkResponse([id |-> "other-token-id", name |-> label, value |-> "other-secret-value"]),
     ErrorResponse(9109, "Unauthorized to access requested resource")}

\* the Pipeline the server returns for a config
PipelineOf(name) == [id |-> "0001", name |-> name, endpoint |-> "foo"]

\* POST, PUT and DELETE on /accounts/:accountId/pipelines[/:name]
PipelineResponses(name) ==
    {OkResponse(PipelineOf(name)),
     ErrorResponse(1000, "Pipeline does not exist")}

AccountIds == {"some-account-id", "other-account-id"}

---------------------------------------------------------------------------
(* client.ts *)

\* the path templates of the fetchResult calls
PipelinesRoute == "/accounts/:accountId/pipelines"
PipelineRoute == "/accounts/:accountId/pipelines/:name"
BucketRoute == "/accounts/:accountId/r2/buckets/:bucket"
PermissionGroupsRoute == "/user/tokens/permission_groups"
TokensRoute == "/user/tokens"

\* createHash('sha256').update(s).digest('hex')
Sha256(s) ==
    CASE s = "my-secret-value" ->
           "be22cbae9c1585c7b61a92fdb75afd10babd535fb9b317f90ac9a9ca896d02d7"
      [] s = "other-secret-value" ->
           "4b48a6db44e69bc4a83e6e7f742ab9d03101fb52ebbe18c119ff2a6234d7cb85"
      [] s = "" ->
           "e3b0c44298fc1c149afbf4c8996fb92427ae41e4649b934ca495991b7852b855"

\* res.find((g) => g.name == 'Workers R2 Storage Bucket Item Write')
RECURSIVE FindPermFrom(_, _)
FindPermFrom(res, i) ==
    IF i > Len(res) THEN None
    ELSE IF res[i].name = R2WritePermission THEN Some(res[i])
    ELSE FindPermFrom(res, i + 1)

\* a lookup that takes the first group whatever its name
MutFindPerm(res) == IF Len(res) > 0 THEN Some(res[1]) ELSE None

FindPerm(res) == FindPermFrom(res, 1)

PermissionGroupsRequest == RequestEv("GET", PermissionGroupsRoute, EmptyObject)

TokenLabel(name) == <<"Service token for Pipeline ", name>>

ResourceKey(acct, bucket) == <<"com.cloudflare.edge.r2.bucket.", acct, "_default_", bucket>>

TokenRequestBody(perm, label, acct, bucket) ==
    [policies |-> <<[effect |-> "allow",
                     permission_groups |-> <<[id |-> perm.id]>>,
                     resources |-> (ResourceKey(acct, bucket) :> "*")]>>,
     name |-> label]

TokenRequest(perm, label, acct, bucket) ==
    RequestBodyEv("POST", TokensRoute, EmptyObject,
                  TokenRequestBody(perm, label, acct, bucket))

GetR2BucketRequest(acct, name) ==
    RequestEv("GET", BucketRoute,
              [accountId |-> acct, bucket |-> name])

\* JSON.stringify leaves out the keys whose value is undefined
StringifyBatch(b) == [k \in {x \in DOMAIN b : IsSome(b[x])} |-> b[k][1]]

StringifyPath(p) ==
    [k \in {x \in DOMAIN p : x = "bucket" \/ IsSome(p[x])} |->
        IF k = "bucket" THEN p[k] ELSE p[k][1]]

StringifyDestination(d) ==
    [k \in DOMAIN d |->
        IF k = "batch" THEN StringifyBatch(d[k])
        ELSE IF k = "path" THEN StringifyPath(d[k])
        ELSE d[k]]

StringifyConfig(c) ==
    [k \in DOMAIN c |-> IF k = "destination" THEN StringifyDestination(c[k]) ELSE c[k]]

CreatePipelineRequest(acct, config) ==
    RequestBodyEv("POST", PipelinesRoute, [accountId |-> acct],
                  StringifyConfig(config))

UpdatePipelineRequest(acct, id, config) ==
    RequestBodyEv("PUT", PipelineRoute,
                  [accountId |-> acct, name |-> id],
                  [name |-> <<"f", "o", "o">>, config |-> StringifyConfig(config)])

DeletePipelineRequest(acct, id) ==
    RequestEv("DELETE", PipelineRoute,
              [accountId |-> acct, name |-> id])

---------------------------------------------------------------------------
(* index.ts: what every handler shares *)

Init ==
    /\ pc = "idle"
    /\ cmd = "none"
    /\ args = NoArgs
    /\ accountId = ""
    /\ pipelineConfig = EmptyObject
    /\ credentials = None
    /\ trace = <<>>
    /\ error = None

\* an error leaves the handler: nothing after the throw runs
Throw(err) ==
    /\ pc' = "done"
    /\ error' = Some(err)

\* await requireAuth(config) rejects
AuthFailed ==
    /\ pc \in {"create:auth", "update:auth", "delete:auth"}
    /\ Throw([kind |-> "UserError", message |-> "Not logged in"])
    /\ UNCHANGED <<cmd, args, accountId, pipelineConfig, credentials, trace>>

\* the same without the warning
MutBucketCheckedEvents(resp, bucket) ==
    <<ResponseEv(resp), LogEv("log", "Authorizing R2 bucket", bucket),
      PermissionGroupsRequest>>

\* what follows `await getR2Bucket(accountId, bucket)` in both handlers: the
\* warning, the log line and the first request of generateR2ServiceToken
BucketCheckedEvents(resp, bucket) ==
    <<ResponseEv(resp)>>
    \o (IF ~IsSome(resp.result)
        THEN <<LogEv("warn", "Specified bucket doesn't exist:", bucket)>>
        ELSE <<>>)
    \o <<LogEv("log", "Authorizing R2 bucket", bucket), PermissionGroupsRequest>>

\* generateR2ServiceToken after `await fetchResult('/user/tokens/permission_groups')`
PermissionGroupsReturn(resp) ==
    /\ pc = "token:perm"
    /\ resp \in PermissionGroupsResponses
    /\ IF ~resp.ok
       THEN /\ trace' = Append(trace, ResponseEv(resp))
            /\ Throw(ApiError(resp))
       ELSE LET perm == FindPerm(resp.result)
            IN  IF ~IsSome(perm)
                THEN /\ trace' = Append(trace, ResponseEv(resp))
                     /\ Throw([kind |-> "Error", message |-> "Missing R2 Permissions"])
                ELSE /\ trace' = trace \o
                           <<ResponseEv(resp),
                             TokenRequest(perm[1], TokenLabel(args.pipeline),
                                          accountId, args.r2[1])>>
                     /\ pc' = "token:post"
                     /\ UNCHANGED error
    /\ UNCHANGED <<cmd, args, accountId, pipelineConfig, credentials>>

\* credentials that carry the token's value unhashed
MutCredentialsOf(acct, serviceToken) ==
    [endpoint |-> <<"https://", acct, ".r2.cloudflarestorage.com">>,
     secret_access_key |-> serviceToken.value,
     access_key_id |-> serviceToken.id]

\* access_key_id, secret_access_key and endpoint of a service token
CredentialsOf(acct, serviceToken) ==
    [endpoint |-> <<"https://", acct, ".r2.cloudflarestorage.com">>,
     secret_access_key |-> Sha256(serviceToken.value),
     access_key_id |-> serviceToken.id]

---------------------------------------------------------------------------
(* index.ts: create *)

\* a handler whose default compression is gzip
MutCreateCompression(a) == IF ~IsSome(a.compression) THEN "gzip" ELSE a.compression[1]

CreateCompression(a) == IF ~IsSome(a.compression) THEN "none" ELSE a.compression[1]

\* a handler that fills in the defaults the help text names
MutCreateBatch(a) ==
    [max_mb |-> IF IsSome(a.batchMaxMb) THEN a.batchMaxMb ELSE Some(10),
     max_duration |-> IF IsSome(a.batchMaxSeconds) THEN a.batchMaxSeconds ELSE Some(15),
     max_rows |-> IF IsSome(a.batchMaxRows) THEN a.batchMaxRows ELSE Some(10000)]

CreateBatch(a) ==
    [max_mb |-> a.batchMaxMb,
     max_duration |-> a.batchMaxSeconds,
     max_rows |-> a.batchMaxRows]

CreateConfig(name, bucket, compression, batch, creds) ==
    [name |-> name,
     metadata |-> EmptyObject,
     source |-> <<[type |-> "http", format |-> "json"],
                  [type |-> "binding", format |-> "json"]>>,
     transforms |-> <<>>,
     destination |->
        [type |-> "r2",
         format |-> "json",
         compression |-> [type |-> compression],
         batch |-> batch,
         path |-> [bucket |-> bucket],
         credentials |-> creds]]

\* a handler that narrows the source whenever --authentication is given,
\* also when it is given as false
MutCreateSource(cfg, a) ==
    IF IsSome(a.authentication)
    THEN [cfg EXCEPT !.source = <<[type |-> "binding", format |-> "json"]>>]
    ELSE cfg

CreateSource(cfg, a) ==
    IF IsSome(a.authentication) /\ a.authentication[1] = TRUE
    THEN [cfg EXCEPT !.source = <<[type |-> "binding", format |-> "json"]>>]
    ELSE cfg

\* a handler that takes the first two segments of any longer transform
MutCreateTransforms(cfg, a) ==
    IF IsSome(a.transform)
    THEN LET split == Split(a.transform[1])
         IN  IF Len(split) >= 2
             THEN [ok |-> TRUE,
                   cfg |-> [cfg EXCEPT !.transforms =
                              Append(@, [script |-> split[1], entrypoint |-> split[2]])]]
             ELSE [ok |-> TRUE,
                   cfg |-> [cfg EXCEPT !.transforms =
                              Append(@, [script |-> split[1],
                                         entrypoint |-> <<"Transform">>])]]
    ELSE [ok |-> TRUE, cfg |-> cfg]

\* ok is FALSE when the handler throws
\* 'invalid transform: required syntax script.entrypoint'
CreateTransforms(cfg, a) ==
    IF IsSome(a.transform)
    THEN LET split == Split(a.transform[1])
         IN  IF Len(split) = 2
             THEN [ok |-> TRUE,
                   cfg |-> [cfg EXCEPT !.transforms =
                              Append(@, [script |-> split[1], entrypoint |-> split[2]])]]
             ELSE IF Len(split) = 1
             THEN [ok |-> TRUE,
                   cfg |-> [cfg EXCEPT !.transforms =
                              Append(@, [script |-> split[1],
                                         entrypoint |-> <<"Transform">>])]]
             ELSE [ok |-> FALSE, cfg |-> cfg]
    ELSE [ok |-> TRUE, cfg |-> cfg]

CreatePath(cfg, a) ==
    LET withPath ==
            IF Truthy(a.filepath)
            THEN [cfg EXCEPT !.destination.path = SetField(@, "filepath", a.filepath)]
            ELSE cfg
    IN  IF TruthySeq(a.filename)
        THEN [withPath EXCEPT !.destination.path = SetField(@, "filename", a.filename)]
        ELSE withPath

\* a handler that asks `bucket === undefined` where the code asks `!bucket`
MutRunCreate ==
    /\ pc = "idle"
    /\ \E a \in CreateArgv :
           /\ cmd' = "create"
           /\ args' = a
           /\ IF ~IsSome(a.r2)
              THEN Throw([kind |-> "FatalError", message |-> "Requires a r2 bucket"])
              ELSE pc' = "create:auth" /\ UNCHANGED error
           /\ UNCHANGED <<accountId, pipelineConfig, credentials, trace>>

\* the handler up to `await requireAuth(config)`
RunCreate ==
    /\ pc = "idle"
    /\ \E a \in CreateArgv :
           /\ cmd' = "create"
           /\ args' = a
           /\ IF ~Truthy(a.r2)
              THEN Throw([kind |-> "FatalError", message |-> "Requires a r2 bucket"])
              ELSE pc' = "create:auth" /\ UNCHANGED error
           /\ UNCHANGED <<accountId, pipelineConfig, credentials, trace>>

\* getR2Bucket called without await: the handler runs on into
\* generateR2ServiceToken while the bucket lookup is in flight
MutCreateAuthenticated(acct) ==
    /\ pc = "create:auth"
    /\ acct \in AccountIds
    /\ accountId' = acct
    /\ trace' = trace \o
          <<GetR2BucketRequest(acct, args.r2[1]),
            LogEv("log", "Authorizing R2 bucket", args.r2[1]),
            PermissionGroupsRequest>>
    /\ pc' = "token:perm"
    /\ UNCHANGED <<cmd, args, pipelineConfig, credentials, error>>

\* requireAuth resolved: getR2Bucket is called
CreateAuthenticated(acct) ==
    /\ pc = "create:auth"
    /\ acct \in AccountIds
    /\ accountId' = acct
    /\ trace' = Append(trace, GetR2BucketRequest(acct, args.r2[1]))
    /\ pc' = "create:bucket"
    /\ UNCHANGED <<cmd, args, pipelineConfig, credentials, error>>

\* a bucket check that catches the API error and carries on with a warning
MutCreateBucketChecked(resp) ==
    /\ pc = "create:bucket"
    /\ resp \in BucketResponses(args.r2[1])
    /\ trace' = trace \o
          <<ResponseEv(resp),
            LogEv("warn", "Specified bucket doesn't exist:", args.r2[1]),
            LogEv("log", "Authorizing R2 bucket", args.r2[1]),
            PermissionGroupsRequest>>
    /\ pc' = "token:perm"
    /\ UNCHANGED <<cmd, args, accountId, pipelineConfig, credentials, error>>

\* getR2Bucket answered: warn when the result is falsy, then
\* generateR2ServiceToken is called
CreateBucketChecked(resp) ==
    /\ pc = "create:bucket"
    /\ resp \in BucketResponses(args.r2[1])
    /\ IF ~resp.ok
       THEN /\ trace' = Append(trace, ResponseEv(resp))
            /\ Throw(ApiError(resp))
       ELSE /\ trace' = trace \o BucketCheckedEvents(resp, args.r2[1])
            /\ pc' = "token:perm"
            /\ UNCHANGED error
    /\ UNCHANGED <<cmd, args, accountId, pipelineConfig, credentials>>

\* generateR2ServiceToken answered: the credentials are derived and the
\* handler sleeps
CreateTokenIssued(resp) ==
    /\ pc = "token:post"
    /\ cmd = "create"
    /\ resp \in TokenResponses(TokenLabel(args.pipeline))
    /\ IF ~resp.ok
       THEN /\ trace' = Append(trace, ResponseEv(resp))
            /\ Throw(ApiError(resp))
            /\ UNCHANGED credentials
       ELSE /\ credentials' = Some(CredentialsOf(accountId, resp.result))
            /\ trace' = trace \o <<ResponseEv(resp), SleepEv(3000)>>
            /\ pc' = "create:sleep"
            /\ UNCHANGED error
    /\ UNCHANGED <<cmd, args, accountId, pipelineConfig>>

\* the config as the handler has it when it calls createPipeline, or when
\* it throws for the transform (ok is FALSE)
CreateFinalConfig(a, creds) ==
    LET initial == CreateConfig(a.pipeline, a.r2[1], CreateCompression(a),
                                CreateBatch(a), creds)
        parsed == CreateTransforms(CreateSource(initial, a), a)
    IN  IF parsed.ok THEN [ok |-> TRUE, cfg |-> CreatePath(parsed.cfg, a)] ELSE parsed

InvalidTransform ==
    [kind |-> "Error", message |-> "invalid transform: required syntax script.entrypoint"]

\* the sleep is over: the config is assembled and createPipeline is called
CreateAfterSleep ==
    /\ pc = "create:sleep"
    /\ LET final == CreateFinalConfig(args, credentials[1])
       IN  /\ pipelineConfig' = final.cfg
           /\ IF ~final.ok
              THEN /\ Throw(InvalidTransform)
                   /\ UNCHANGED trace
              ELSE /\ trace' = trace \o
                         <<LogEv("log", "Creating pipeline named", args.pipeline),
                           CreatePipelineRequest(accountId, final.cfg)>>
                   /\ pc' = "create:post"
                   /\ UNCHANGED error
    /\ UNCHANGED <<cmd, args, accountId, credentials>>

\* createPipeline answered: the metrics event and the success message
CreatePipelineReturn(resp) ==
    /\ pc = "create:post"
    /\ resp \in PipelineResponses(args.pipeline)
    /\ IF ~resp.ok
       THEN /\ trace' = Append(trace, ResponseEv(resp))
            /\ Throw(ApiError(resp))
       ELSE /\ trace' = trace \o
                  <<ResponseEv(resp), MetricsEv("create pipeline"),
                    LogEv("log", "Successfully created pipeline", resp.result.name)>>
            /\ pc' = "done"
            /\ UNCHANGED error
    /\ UNCHANGED <<cmd, args, accountId, pipelineConfig, credentials>>

---------------------------------------------------------------------------
(* index.ts: update *)

UpdateInitialConfig(name) == [name |-> name, metadata |-> EmptyObject]

UpdateCompression(cfg, a) ==
    IF IsSome(a.compression)
    THEN IF ~HasField(cfg, "destination")
         THEN SetField(cfg, "destination", [compression |-> [type |-> a.compression[1]]])
         ELSE [cfg EXCEPT !.destination =
                 SetField(@, "compression", [type |-> a.compression[1]])]
    ELSE cfg

UpdateBatch(cfg, a) ==
    LET batch == [max_mb |-> a.batchMaxMb,
                  max_duration |-> a.batchMaxSeconds,
                  max_rows |-> a.batchMaxRows]
    IN  IF ~HasField(cfg, "destination")
        THEN SetField(cfg, "destination", [batch |-> batch])
        ELSE [cfg EXCEPT !.destination = SetField(@, "batch", batch)]

\* a bucket branch that sets the path and forgets the credentials
MutUpdateBucket(cfg, bucket, creds) ==
    IF ~HasField(cfg, "destination")
    THEN SetField(cfg, "destination", [path |-> [bucket |-> bucket]])
    ELSE [cfg EXCEPT !.destination = SetField(@, "path", [bucket |-> bucket])]

UpdateBucket(cfg, bucket, creds) ==
    IF ~HasField(cfg, "destination")
    THEN SetField(cfg, "destination", [path |-> [bucket |-> bucket], credentials |-> creds])
    ELSE [cfg EXCEPT !.destination =
            SetField(SetField(@, "path", [bucket |-> bucket]), "credentials", creds)]

UpdateSource(cfg, a) ==
    IF IsSome(a.authentication) /\ a.authentication[1] = TRUE
    THEN SetField(cfg, "source", <<[type |-> "binding", format |-> "json"]>>)
    ELSE cfg

\* ok is FALSE when the handler throws
\* 'invalid transform: required syntax script.entrypoint'
UpdateTransforms(cfg, a) ==
    IF IsSome(a.transform)
    THEN LET split == Split(a.transform[1])
             emptied == SetField(cfg, "transforms", <<>>)
         IN  IF Len(split) = 2
             THEN [ok |-> TRUE,
                   cfg |-> [emptied EXCEPT !.transforms =
                              Append(@, [script |-> split[1], entrypoint |-> split[2]])]]
             ELSE IF Len(split) = 1
             THEN [ok |-> TRUE,
                   cfg |-> [emptied EXCEPT !.transforms =
                              Append(@, [script |-> split[1],
                                         entrypoint |-> <<"Transform">>])]]
             ELSE [ok |-> FALSE, cfg |-> emptied]
    ELSE [ok |-> TRUE, cfg |-> cfg]

UpdatePath(cfg, a) ==
    IF Truthy(a.filepath) \/ TruthySeq(a.filename)
    THEN LET path == [filepath |-> a.filepath, filename |-> a.filename]
         IN  IF ~HasField(cfg, "destination")
             THEN SetField(cfg, "destination", [path |-> path])
             ELSE IF ~HasField(cfg.destination, "path")
             THEN [cfg EXCEPT !.destination = SetField(@, "path", path)]
             ELSE cfg
    ELSE cfg

\* the patch as the handler has it when it calls updatePipeline, or when it
\* throws for the transform (ok is FALSE)
UpdateFinalConfig(cfg, a) ==
    LET parsed == UpdateTransforms(UpdateSource(cfg, a), a)
    IN  IF parsed.ok THEN [ok |-> TRUE, cfg |-> UpdatePath(parsed.cfg, a)] ELSE parsed

\* the rest of the handler once the bucket branch is over or was skipped:
\* source, transforms and path are set and updatePipeline is called
UpdateFinish(cfg, acct) ==
    LET final == UpdateFinalConfig(cfg, args)
    IN  /\ pipelineConfig' = final.cfg
        /\ IF ~final.ok
           THEN /\ Throw(InvalidTransform)
                /\ UNCHANGED trace
           ELSE /\ trace' = trace \o
                      <<LogEv("log", "Updating pipeline named", args.pipeline),
                        UpdatePipelineRequest(acct, args.pipeline, final.cfg)>>
                /\ pc' = "update:put"
                /\ UNCHANGED error

\* the handler up to `await requireAuth(config)`
RunUpdate ==
    /\ pc = "idle"
    /\ \E a \in UpdateArgv :
           /\ cmd' = "update"
           /\ args' = a
           /\ pipelineConfig' = UpdateInitialConfig(a.pipeline)
           /\ pc' = "update:auth"
           /\ UNCHANGED <<accountId, credentials, trace, error>>

\* requireAuth resolved: compression and batch are set; with a bucket
\* getR2Bucket is called, without one the handler runs on to updatePipeline
UpdateAuthenticated(acct) ==
    /\ pc = "update:auth"
    /\ acct \in AccountIds
    /\ accountId' = acct
    /\ LET cfg == UpdateBatch(UpdateCompression(pipelineConfig, args), args)
       IN  IF Truthy(args.r2)
           THEN /\ pipelineConfig' = cfg
                /\ trace' = Append(trace, GetR2BucketRequest(acct, args.r2[1]))
                /\ pc' = "update:bucket"
                /\ UNCHANGED error
           ELSE UpdateFinish(cfg, acct)
    /\ UNCHANGED <<cmd, args, credentials>>

\* getR2Bucket answered: warn when the result is falsy, then
\* generateR2ServiceToken is called
UpdateBucketChecked(resp) ==
    /\ pc = "update:bucket"
    /\ resp \in BucketResponses(args.r2[1])
    /\ IF ~resp.ok
       THEN /\ trace' = Append(trace, ResponseEv(resp))
            /\ Throw(ApiError(resp))
       ELSE /\ trace' = trace \o BucketCheckedEvents(resp, args.r2[1])
            /\ pc' = "token:perm"
            /\ UNCHANGED error
    /\ UNCHANGED <<cmd, args, accountId, pipelineConfig, credentials>>

\* generateR2ServiceToken answered: path and credentials are set and the
\* handler sleeps
UpdateTokenIssued(resp) ==
    /\ pc = "token:post"
    /\ cmd = "update"
    /\ resp \in TokenResponses(TokenLabel(args.pipeline))
    /\ IF ~resp.ok
       THEN /\ trace' = Append(trace, ResponseEv(resp))
            /\ Throw(ApiError(resp))
            /\ UNCHANGED <<credentials, pipelineConfig>>
       ELSE LET creds == CredentialsOf(accountId, resp.result)
            IN  /\ credentials' = Some(creds)
                /\ pipelineConfig' = UpdateBucket(pipelineConfig, args.r2[1], creds)
                /\ trace' = trace \o <<ResponseEv(resp), SleepEv(3000)>>
                /\ pc' = "update:sleep"
                /\ UNCHANGED error
    /\ UNCHANGED <<cmd, args, accountId>>

\* the sleep is over
UpdateAfterSleep ==
    /\ pc = "update:sleep"
    /\ UpdateFinish(pipelineConfig, accountId)
    /\ UNCHANGED <<cmd, args, accountId, credentials>>

\* updatePipeline answered: the metrics event and the success message
UpdatePipelineReturn(resp) ==
    /\ pc = "update:put"
    /\ resp \in PipelineResponses(args.pipeline)
    /\ IF ~resp.ok
       THEN /\ trace' = Append(trace, ResponseEv(resp))
            /\ Throw(ApiError(resp))
       ELSE /\ trace' = trace \o
                  <<ResponseEv(resp), MetricsEv("update pipeline"),
                    LogEv("log", "Successfully updated pipeline", resp.result.name)>>
            /\ pc' = "done"
            /\ UNCHANGED error
    /\ UNCHANGED <<cmd, args, accountId, pipelineConfig, credentials>>

---------------------------------------------------------------------------
(* index.ts: delete *)

Letters ==
    {"a", "b", "c", "d", "e", "f", "g", "h", "i", "j", "k", "l", "m",
     "n", "o", "p", "q", "r", "s", "t", "u", "v", "w", "x", "y", "z",
     "A", "B", "C", "D", "E", "F", "G", "H", "I", "J", "K", "L", "M",
     "N", "O", "P", "Q", "R", "S", "T", "U", "V", "W", "X", "Y", "Z"}

Digits == {"0", "1", "2", "3", "4", "5", "6", "7", "8", "9"}

\* name.match(/^[a-zA-Z0-9-]+$/)
MatchesPipelineName(name) ==
    /\ Len(name) >= 1
    /\ \A i \in 1..Len(name) : name[i] \in Letters \cup Digits \cup {"-"}

\* DELETE /accounts/:accountId/pipelines/:name
DeleteResponses ==
    {OkResponse(None), ErrorResponse(1000, "Pipeline does not exist")}

\* the handler up to `await requireAuth(config)`
RunDelete ==
    /\ pc = "idle"
    /\ \E a \in DeleteArgv :
           /\ cmd' = "delete"
           /\ args' = a
           /\ pc' = "delete:auth"
           /\ UNCHANGED <<accountId, pipelineConfig, credentials, trace, error>>

\* requireAuth resolved: the name is checked and deletePipeline is called
DeleteAuthenticated(acct) ==
    /\ pc = "delete:auth"
    /\ acct \in AccountIds
    /\ accountId' = acct
    /\ IF ~MatchesPipelineName(args.pipeline)
       THEN /\ Throw([kind |-> "Error", message |-> "must provide a valid pipeline name"])
            /\ UNCHANGED trace
       ELSE /\ trace' = trace \o
                  <<LogEv("log", "Deleting pipeline", args.pipeline),
                    DeletePipelineRequest(acct, args.pipeline)>>
            /\ pc' = "delete:delete"
            /\ UNCHANGED error
    /\ UNCHANGED <<cmd, args, pipelineConfig, credentials>>

\* a delete that reports success whatever the server answered
MutDeletePipelineReturn(resp) ==
    /\ pc = "delete:delete"
    /\ resp \in DeleteResponses
    /\ trace' = trace \o
          <<ResponseEv(resp),
            LogEv("log", "Deleted pipeline", args.pipeline),
            MetricsEv("delete pipeline")>>
    /\ pc' = "done"
    /\ UNCHANGED <<cmd, args, accountId, pipelineConfig, credentials, error>>

\* deletePipeline answered: the message and the metrics event
DeletePipelineReturn(resp) ==
    /\ pc = "delete:delete"
    /\ resp \in DeleteResponses
    /\ IF ~resp.ok
       THEN /\ trace' = Append(trace, ResponseEv(resp))
            /\ Throw(ApiError(resp))
       ELSE /\ trace' = trace \o
                  <<ResponseEv(resp),
                    LogEv("log", "Deleted pipeline", args.pipeline),
                    MetricsEv("delete pipeline")>>
            /\ pc' = "done"
            /\ UNCHANGED error
    /\ UNCHANGED <<cmd, args, accountId, pipelineConfig, credentials>>

---------------------------------------------------------------------------
(* One invocation *)

AnyBucketResponse == UNION {BucketResponses(b) : b \in BucketNames}

AnyTokenResponse == UNION {TokenResponses(TokenLabel(n)) : n \in PipelineNames}

AnyPipelineResponse == UNION {PipelineResponses(n) : n \in PipelineNames}

Next ==
    \/ RunCreate
    \/ RunUpdate
    \/ RunDelete
    \/ AuthFailed
    \/ \E acct \in AccountIds : CreateAuthenticated(acct)
    \/ \E resp \in AnyBucketResponse : CreateBucketChecked(resp)
    \/ \E resp \in PermissionGroupsResponses : PermissionGroupsReturn(resp)
    \/ \E resp \in AnyTokenResponse : CreateTokenIssued(resp)
    \/ CreateAfterSleep
    \/ \E resp \in AnyPipelineResponse : CreatePipelineReturn(resp)
    \/ \E acct \in AccountIds : UpdateAuthenticated(acct)
    \/ \E resp \in AnyBucketResponse : UpdateBucketChecked(resp)
    \/ \E resp \in AnyTokenResponse : UpdateTokenIssued(resp)
    \/ UpdateAfterSleep
    \/ \E resp \in AnyPipelineResponse : UpdatePipelineReturn(resp)
    \/ \E acct \in AccountIds : DeleteAuthenticated(acct)
    \/ \E resp \in DeleteResponses : DeletePipelineReturn(resp)

Spec == Init /\ [][Next]_vars

---------------------------------------------------------------------------
(* Reading the trace *)

IsCall(e, method, route) == e.ev = "request" /\ e.method = method /\ e.route = route

\* the POST of createPipeline or the PUT of updatePipeline
IsPipelineWrite(e) == IsCall(e, "POST", PipelinesRoute) \/ IsCall(e, "PUT", PipelineRoute)

IsTokenProvisioning(e) ==
    IsCall(e, "GET", PermissionGroupsRoute) \/ IsCall(e, "POST", TokensRoute)

\* the pipeline config a create or update request carries
SentConfig(e) == IF e.method = "PUT" THEN e.body.config ELSE e.body

PipelineWrites == {i \in DOMAIN trace : IsPipelineWrite(trace[i])}

Slept == \E i \in DOMAIN trace : trace[i].ev = "sleep"

\* the handler is past the point where it assembles source, transforms and path
PastAssembly ==
    \/ cmd = "create" /\ pc \in {"create:post", "done"} /\ Slept
    \/ /\ cmd = "update"
       /\ pc \in {"update:put", "done"}
       /\ accountId # ""
       /\ (Truthy(args.r2) => Slept)

NumDots(t) == Cardinality({i \in DOMAIN t : t[i] = "."})

---------------------------------------------------------------------------
(* Claims *)

\* C1: for create and update, a --transform value without a '.' is sent as
\* the single transform {script: value, entrypoint: 'Transform'}; a value
\* with exactly one '.' as the single transform {script: the part before it,
\* entrypoint: the part after it}; a value with more dots makes the handler
\* throw 'invalid transform' and no create or update request is issued.
C1_TransformSplit ==
    (cmd \in {"create", "update"} /\ IsSome(args.transform)) =>
        LET t == args.transform[1]
        IN  /\ \A i \in PipelineWrites :
                  LET tr == SentConfig(trace[i]).transforms
                  IN  /\ NumDots(t) \in {0, 1}
                      /\ Len(tr) = 1
                      /\ DOMAIN tr[1] = {"script", "entrypoint"}
                      /\ NumDots(t) = 0 =>
                            tr[1].script = t /\ tr[1].entrypoint = <<"Transform">>
                      /\ NumDots(t) = 1 =>
                            t = tr[1].script \o <<".">> \o tr[1].entrypoint
            /\ (NumDots(t) >= 2 /\ PastAssembly) =>
                  /\ pc = "done"
                  /\ error = Some(InvalidTransform)
                  /\ PipelineWrites = {}

\* an update whose transform 'a.a' went out in the PUT as script a, entrypoint a
C1_Witness ==
    /\ cmd = "update"
    /\ args.transform = Some(<<"a", ".", "a">>)
    /\ \E i \in PipelineWrites :
          SentConfig(trace[i]).transforms = <<[script |-> <<"a">>, entrypoint |-> <<"a">>]>>

\* the flags that set each field of the patch
FieldSupplied(a, field) ==
    CASE field = "metadata" -> FALSE
      [] field = "source" -> IsSome(a.authentication)
      [] field = "transforms" -> IsSome(a.transform)
      [] field = "compression" -> IsSome(a.compression)
      [] field = "batch" ->
            IsSome(a.batchMaxMb) \/ IsSome(a.batchMaxRows) \/ IsSome(a.batchMaxSeconds)
      [] field = "path" -> IsSome(a.r2) \/ IsSome(a.filepath) \/ IsSome(a.filename)
      [] field = "credentials" -> IsSome(a.r2)

\* C2: the PUT body of update holds, besides the name, only the config
\* fields whose flag was supplied: metadata, source, transforms,
\* destination.compression, destination.batch, destination.path and
\* destination.credentials are absent when no flag set them.
C2_OnlySuppliedFields ==
    cmd = "update" =>
        \A i \in PipelineWrites :
            LET config == SentConfig(trace[i])
                destination ==
                    IF HasField(config, "destination") THEN config.destination
                    ELSE EmptyObject
            IN  /\ \A f \in {"metadata", "source", "transforms"} :
                      HasField(config, f) => FieldSupplied(args, f)
                /\ \A f \in {"compression", "batch", "path", "credentials"} :
                      HasField(destination, f) => FieldSupplied(args, f)

\* C3: whenever --filepath (--filename) is supplied to create or update, the
\* request body has destination.path.filepath (filename) equal to it, also
\* when --r2 is supplied on the same update; when the flag is not supplied
\* the field is absent.
C3_PathOverrides ==
    \A i \in PipelineWrites :
        LET config == SentConfig(trace[i])
            path ==
                IF HasField(config, "destination") /\ HasField(config.destination, "path")
                THEN config.destination.path
                ELSE EmptyObject
        IN  /\ IF IsSome(args.filepath)
               THEN HasField(path, "filepath") /\ path.filepath = args.filepath[1]
               ELSE ~HasField(path, "filepath")
            /\ IF IsSome(args.filename)
               THEN HasField(path, "filename") /\ path.filename = args.filename[1]
               ELSE ~HasField(path, "filename")

\* C4: an update issues token-provisioning requests (the permission-group
\* lookup, POST /user/tokens) only when --r2 names a bucket, and its PUT
\* carries destination.credentials exactly when --r2 names a bucket, in
\* which case the token was created before the PUT.
C4_CredentialsOnlyWithBucket ==
    cmd = "update" =>
        /\ (\E i \in DOMAIN trace : IsTokenProvisioning(trace[i])) => Truthy(args.r2)
        /\ \A i \in PipelineWrites :
              LET config == SentConfig(trace[i])
              IN  /\ HasField(config.destination, "credentials") <=> Truthy(args.r2)
                  /\ Truthy(args.r2) <=>
                        \E j \in 1..(i - 1) : IsCall(trace[j], "POST", TokensRoute)
                  /\ Truthy(args.r2) <=>
                        \E j \in 1..(i - 1) : IsCall(trace[j], "GET", PermissionGroupsRoute)

\* an update with a bucket whose PUT went out with credentials
C4_Witness ==
    /\ cmd = "update"
    /\ Truthy(args.r2)
    /\ \E i \in PipelineWrites :
          HasField(SentConfig(trace[i]).destination, "credentials")

\* the k-th request and the k-th response of the trace
RequestAt(k) ==
    CHOOSE i \in DOMAIN trace :
        IsRequest(trace[i]) /\ Len(Requests(SubSeq(trace, 1, i))) = k

ResponseAt(k) ==
    CHOOSE i \in DOMAIN trace :
        IsResponse(trace[i]) /\ Len(Responses(SubSeq(trace, 1, i))) = k

CallOf(e) == <<e.method, e.route>>

CreateCalls ==
    <<<<"GET", BucketRoute>>, <<"GET", PermissionGroupsRoute>>,
      <<"POST", TokensRoute>>, <<"POST", PipelinesRoute>>>>

\* C5: create issues its requests in the order bucket check, permission-group
\* lookup, token creation, pipeline creation, each at most once; a request is
\* issued only after the one before it was answered successfully, so at most
\* one is in flight; the sleep lies between the token's answer and the
\* pipeline POST; a create that succeeds has issued all four.
C5_CreateSequential ==
    cmd = "create" =>
        LET reqs == Requests(trace)
            n == Len(reqs)
        IN  /\ n <= Len(CreateCalls)
            /\ \A k \in 1..n : CallOf(reqs[k]) = CreateCalls[k]
            /\ InFlight(trace) \in {0, 1}
            /\ \A k \in 1..(n - 1) :
                  /\ RequestAt(k) < ResponseAt(k)
                  /\ ResponseAt(k) < RequestAt(k + 1)
                  /\ trace[ResponseAt(k)].ok
            /\ n = 4 => \E i \in (ResponseAt(3) + 1)..(RequestAt(4) - 1) :
                           trace[i].ev = "sleep"
            /\ (\E i \in DOMAIN trace : IsResponse(trace[i]) /\ ~trace[i].ok) =>
                  pc = "done" /\ IsSome(error) /\ InFlight(trace) = 0
            /\ (pc = "done" /\ ~IsSome(error)) =>
                  n = 4 /\ InFlight(trace) = 0 /\ \A k \in 1..4 : trace[ResponseAt(k)].ok

\* a create that ran to its end
C5_Witness ==
    /\ cmd = "create"
    /\ pc = "done"
    /\ ~IsSome(error)
    /\ Len(Requests(trace)) = 4

\* C6: update fetches the existing pipeline (GET
\* /accounts/{accountId}/pipelines/{name}) before it builds the patch: every
\* PUT and every token-provisioning request of an update comes after a GET
\* of the pipeline that the server answered successfully.
C6_FetchBeforePatch ==
    cmd = "update" =>
        \A i \in DOMAIN trace :
            (IsCall(trace[i], "PUT", PipelineRoute) \/ IsTokenProvisioning(trace[i])) =>
                \E j \in 1..(i - 2) :
                    /\ IsCall(trace[j], "GET", PipelineRoute)
                    /\ IsResponse(trace[j + 1])
                    /\ trace[j + 1].ok

BucketAnswers ==
    {i \in DOMAIN trace :
        /\ i > 1
        /\ IsResponse(trace[i])
        /\ IsCall(trace[i - 1], "GET", BucketRoute)}

IsBucketWarning(e) ==
    e.ev = "log" /\ e.level = "warn" /\ e.text = "Specified bucket doesn't exist:"

IsAuthorizing(e) == e.ev = "log" /\ e.level = "log" /\ e.text = "Authorizing R2 bucket"

\* the handler warned and went on into generateR2ServiceToken
WarnedAndProceeded(i) ==
    /\ Len(trace) >= i + 3
    /\ IsBucketWarning(trace[i + 1])
    /\ IsAuthorizing(trace[i + 2])
    /\ IsCall(trace[i + 3], "GET", PermissionGroupsRoute)

NamesIn(e) ==
    IF IsCall(e, "POST", PipelinesRoute) THEN {e.body.name}
    ELSE IF IsCall(e, "PUT", PipelineRoute) THEN {e.params.name, e.body.config.name}
    ELSE IF IsCall(e, "DELETE", PipelineRoute) THEN {e.params.name}
    ELSE {}

\* C9: every pipeline name that reaches the API in a create, update or
\* delete request matches ^[a-zA-Z0-9-]+$.
C9_NamesValidated ==
    \A i \in DOMAIN trace : \A n \in NamesIn(trace[i]) : MatchesPipelineName(n)

Deletes == {i \in DOMAIN trace : IsCall(trace[i], "DELETE", PipelineRoute)}

IsDeleting(e) == e.ev = "log" /\ e.text = "Deleting pipeline"

IsDeleted(e) == e.ev = "log" /\ e.text = "Deleted pipeline"

IsDeleteMetric(e) == e.ev = "metrics" /\ e.name = "delete pipeline"

\* C10: delete issues the DELETE for the given name at most once, right
\* after the 'Deleting pipeline' message; 'Deleted pipeline' and the 'delete
\* pipeline' metrics event come only after the server answered that DELETE
\* successfully; when the server answers with an error the command fails
\* with the server's code and message, sends no second DELETE, logs no
\* 'Deleted pipeline' and sends no metrics event.
C10_DeleteOnceThenReport ==
    cmd = "delete" =>
        /\ Cardinality(Deletes) <= 1
        /\ \A i \in Deletes :
              /\ trace[i].params.name = args.pipeline
              /\ i > 1
              /\ IsDeleting(trace[i - 1])
              /\ trace[i - 1].arg = args.pipeline
        /\ \A j \in DOMAIN trace :
              (IsDeleted(trace[j]) \/ IsDeleteMetric(trace[j])) =>
                  \E i \in Deletes :
                      /\ i + 1 < j
                      /\ IsResponse(trace[i + 1])
                      /\ trace[i + 1].ok
        /\ \A k \in DOMAIN trace :
              (IsResponse(trace[k]) /\ ~trace[k].ok) =>
                  /\ pc = "done"
                  /\ error = Some([kind |-> "APIError",
                                   code |-> trace[k].answer.code,
                                   message |-> trace[k].answer.message])
                  /\ Cardinality(Deletes) = 1
                  /\ k = Len(trace)
                  /\ ~\E j \in DOMAIN trace :
                        IsDeleted(trace[j]) \/ IsDeleteMetric(trace[j])

\* a delete the server answered with an error
C10_Witness ==
    /\ cmd = "delete"
    /\ Deletes # {}
    /\ \E k \in DOMAIN trace : IsResponse(trace[k]) /\ ~trace[k].ok
    /\ pc = "done"

\* the POST of createPipeline
CreatePosts == {i \in DOMAIN trace : IsCall(trace[i], "POST", PipelinesRoute)}

C12_SourceByAuthentication ==
    \A i \in CreatePosts :
        LET source == trace[i].body.source
        IN  IF args.authentication = Some(TRUE)
            THEN source = <<[type |-> "binding", format |-> "json"]>>
            ELSE source = <<[type |-> "http", format |-> "json"],
                            [type |-> "binding", format |-> "json"]>>

\* a create with --authentication false whose POST went out
C12_Witness ==
    /\ args.authentication = Some(FALSE)
    /\ CreatePosts # {}

\* the batch limits given on the command line
SuppliedLimits(a) ==
    {o[1] : o \in {x \in {a.batchMaxMb, a.batchMaxRows, a.batchMaxSeconds} : IsSome(x)}}

\* C13: destination.batch is in every config create sends and holds exactly
\* the limits whose flag was supplied, each with the supplied value: one key
\* per supplied limit and no key for a limit that was not supplied.
C13_BatchHoldsSuppliedLimits ==
    \A i \in CreatePosts :
        /\ HasField(trace[i].body.destination, "batch")
        /\ LET batch == trace[i].body.destination.batch
           IN  /\ {batch[k] : k \in DOMAIN batch} = SuppliedLimits(args)
               /\ Cardinality(DOMAIN batch) = Cardinality(SuppliedLimits(args))
               /\ IsSome(args.batchMaxMb) <=> HasField(batch, "max_mb")
               /\ IsSome(args.batchMaxRows) <=> HasField(batch, "max_rows")
               /\ HasField(batch, "max_mb") => batch.max_mb = args.batchMaxMb[1]
               /\ HasField(batch, "max_rows") => batch.max_rows = args.batchMaxRows[1]

\* a create with only --batch-max-rows and --batch-max-seconds whose POST went out
C13_Witness ==
    /\ ~IsSome(args.batchMaxMb)
    /\ IsSome(args.batchMaxRows)
    /\ IsSome(args.batchMaxSeconds)
    /\ CreatePosts # {}

\* C14: a create that reaches the POST sends destination.compression.type
\* 'none' without --compression and c with --compression c; nothing outside
\* {none, gzip, deflate} is sent.
C14_CompressionDefaultsToNone ==
    \A i \in CreatePosts :
        LET type == trace[i].body.destination.compression.type
        IN  /\ type \in {"none", "gzip", "deflate"}
            /\ IF IsSome(args.compression)
               THEN type = args.compression[1]
               ELSE type = "none"

\* a create without --compression whose POST went out
C14_Witness ==
    /\ ~IsSome(args.compression)
    /\ CreatePosts # {}

\* the filename a create or update request carries, if it carries one
SentFilenames ==
    {SentConfig(trace[i]).destination.path.filename :
        i \in {j \in PipelineWrites :
                 /\ HasField(SentConfig(trace[j]), "destination")
                 /\ HasField(SentConfig(trace[j]).destination, "path")
                 /\ HasField(SentConfig(trace[j]).destination.path, "filename")}}

\* C15: every destination.path.filename in a config sent by create or
\* update contains the '${slug}' placeholder.
C15_FilenameHasSlug ==
    \A f \in SentFilenames : \E k \in DOMAIN f : f[k] = "${slug}"

\* the batch a create or update request carries, if it carries one
SentBatches ==
    {SentConfig(trace[i]).destination.batch :
        i \in {j \in PipelineWrites :
                 /\ HasField(SentConfig(trace[j]), "destination")
                 /\ HasField(SentConfig(trace[j]).destination, "batch")}}

\* C16: the value of --batch-max-seconds is sent under
\* destination.batch.max_duration_s (and --batch-max-mb under max_mb,
\* --batch-max-rows under max_rows), by create and by update; no other batch
\* key is sent.
C16_BatchKeysOfDataModel ==
    \A batch \in SentBatches :
        /\ DOMAIN batch \subseteq {"max_mb", "max_rows", "max_duration_s"}
        /\ IsSome(args.batchMaxSeconds) =>
              /\ HasField(batch, "max_duration_s")
              /\ batch.max_duration_s = args.batchMaxSeconds[1]
        /\ IsSome(args.batchMaxMb) =>
              /\ HasField(batch, "max_mb")
              /\ batch.max_mb = args.batchMaxMb[1]
        /\ IsSome(args.batchMaxRows) =>
              /\ HasField(batch, "max_rows")
              /\ batch.max_rows = args.batchMaxRows[1]

\* the PUT of updatePipeline
UpdatePuts == {i \in DOMAIN trace : IsCall(trace[i], "PUT", PipelineRoute)}

\* C17: the PUT of update names one pipeline: the name in the URL path, the
\* name of the config in the body and a top-level name of the body all
\* equal the name given on the command line.
C17_PutNamesOnePipeline ==
    \A i \in UpdatePuts :
        /\ trace[i].params.name = args.pipeline
        /\ trace[i].body.config.name = args.pipeline
        /\ HasField(trace[i].body, "name") => trace[i].body.name = args.pipeline

TokenPosts == {i \in DOMAIN trace : IsCall(trace[i], "POST", TokensRoute)}

\* C18: a create or update rejected for a malformed --transform has issued
\* no POST /user/tokens.
C18_TransformCheckedBeforeToken ==
    error = Some(InvalidTransform) => TokenPosts = {}

\* the permission groups with the name generateR2ServiceToken looks for
WriteGroupsIn(res) == {k \in DOMAIN res : res[k].name = "Workers R2 Storage Bucket Item Write"}

\* the answered permission-group lookups
LookupAnswers ==
    {i \in DOMAIN trace :
        /\ i > 1
        /\ IsResponse(trace[i])
        /\ trace[i].ok
        /\ IsCall(trace[i - 1], "GET", PermissionGroupsRoute)}

\* C19: every POST /user/tokens directly follows a permission-group lookup
\* that found the group 'Workers R2 Storage Bucket Item Write', and grants
\* one policy: effect allow, the id of that group alone, and one resource
\* key built from the accountId and the bucket of the invocation. A lookup
\* that returns no such group fails the command with 'Missing R2
\* Permissions' and no POST /user/tokens goes out.
C19_TokenScopedByLookup ==
    /\ \A i \in TokenPosts :
          /\ i - 1 \in LookupAnswers
          /\ LET res == trace[i - 1].answer.result
                 policies == trace[i].body.policies
             IN  /\ WriteGroupsIn(res) # {}
                 /\ Len(policies) = 1
                 /\ policies[1].effect = "allow"
                 /\ Len(policies[1].permission_groups) = 1
                 /\ \E k \in WriteGroupsIn(res) :
                        policies[1].permission_groups[1] = [id |-> res[k].id]
                 /\ DOMAIN policies[1].resources =
                        {<<"com.cloudflare.edge.r2.bucket.", accountId,
                           "_default_", args.r2[1]>>}
    /\ \A i \in LookupAnswers :
          WriteGroupsIn(trace[i].answer.result) = {} =>
              /\ pc = "done"
              /\ error = Some([kind |-> "Error", message |-> "Missing R2 Permissions"])
              /\ TokenPosts = {}

\* a token request has gone out after a lookup that also returned another group
C19_Witness ==
    \E i \in TokenPosts : Len(trace[i - 1].answer.result) = 2

\* the service tokens issued in this invocation
IssuedTokens ==
    {trace[i].answer.result :
        i \in {j \in DOMAIN trace :
                 /\ j > 1
                 /\ IsResponse(trace[j])
                 /\ trace[j].ok
                 /\ IsCall(trace[j - 1], "POST", TokensRoute)}}

\* sha256 (hex) of the token values the API hands out
HexDigests ==
    {<<"my-secret-value",
       "be22cbae9c1585c7b61a92fdb75afd10babd535fb9b317f90ac9a9ca896d02d7">>,
     <<"other-secret-value",
       "4b48a6db44e69bc4a83e6e7f742ab9d03101fb52ebbe18c119ff2a6234d7cb85">>}

\* the credentials a create or update request carries, if it carries them
SentCredentials ==
    {SentConfig(trace[i]).destination.credentials :
        i \in {j \in PipelineWrites :
                 /\ HasField(SentConfig(trace[j]), "destination")
                 /\ HasField(SentConfig(trace[j]).destination, "credentials")}}

\* C20: the credentials in a create or update request body have
\* access_key_id = the id of the service token issued in the invocation,
\* secret_access_key = sha256 (hex) of that token's value and endpoint =
\* https://{accountId}.r2.cloudflarestorage.com; the token's value itself is
\* in no pipeline request body.
C20_CredentialsFromToken ==
    \A c \in SentCredentials :
        /\ DOMAIN c = {"access_key_id", "secret_access_key", "endpoint"}
        /\ c.endpoint = <<"https://", accountId, ".r2.cloudflarestorage.com">>
        /\ \E tok \in IssuedTokens :
              /\ c.access_key_id = tok.id
              /\ <<tok.value, c.secret_access_key>> \in HexDigests
              /\ c.access_key_id # tok.value
              /\ c.secret_access_key # tok.value

\* an update with --r2 has sent credentials made from the second token
C20_Witness ==
    /\ cmd = "update"
    /\ SentCredentials # {}
    /\ \E tok \in IssuedTokens : tok.id = "other-token-id"

===========================================================================
